---------------------------- MODULE Spec2Model ----------------------------
(***************************************************************************)
(* State-machine model of the sonar-network-dashboard backend.             *)
(*                                                                         *)
(*   build = "router" : the Express router of src/routes/api.js (its text  *)
(*                      is in src/src/sonar/queries.js, lines 116-340) and *)
(*                      the suppression routes of                          *)
(*                      src/src/routes/suppressions.js;                    *)
(*   build = "server" : the monolithic src/server.js, which owns its own   *)
(*                      two caches and mounts no router.                   *)
(*                                                                         *)
(* A process runs one of the two builds; Init chooses which.  Time is      *)
(* Date.now() in milliseconds, observed every Quantum milliseconds from    *)
(* the start of the process on.                                            *)
(*                                                                         *)
(*   Spec        : the HTTP handlers of either build, two viewers polling; *)
(*   SpecFilter  : the suppression filter applied to arbitrary lists;      *)
(*   SpecFetcher : one batch of the Bounded Fetcher (getCustomersByIds),   *)
(*                 whose code, services/sonarService.js, is not in the     *)
(*                 source tree and is modelled from the specification.     *)
(***************************************************************************)
EXTENDS Integers, Sequences, FiniteSets, TLC

(***************************************************************************)
(* Bounds of the model.                                                    *)
(***************************************************************************)
Quantum     == 30000   \* milliseconds between two observations of the clock
MaxTicks    == 2       \* the clock is observed MaxTicks times after the start
MaxTtlTicks == 5       \* CACHE_TTL_MS, when set, is MaxTtlTicks quanta: more than the clock reads
MaxId       == 1       \* accounts known upstream are 1 .. MaxId
MaxCount    == 1       \* every upstream total_count is in 0 .. MaxCount
MaxAccount  == 2       \* the filter and the fetcher are tried on accounts 1 .. MaxAccount
MaxLen      == 3       \* and on lists of at most MaxLen records or identifiers
MaxCeiling  == 2       \* the fetcher's concurrency ceiling is in 1 .. MaxCeiling
MaxRecords  == 2       \* one fetchOne yields at most MaxRecords records

(***************************************************************************)
(* Program constants.                                                      *)
(***************************************************************************)
CACHE_MS             == 60000   \* server.js
DOWN_CACHE_MS        == 60000   \* server.js
CACHE_TTL_MS_DEFAULT == 60000   \* routes/api.js: getEnvInt("CACHE_TTL_MS") ?? 60_000

Viewers == {"v1", "v2"}         \* browsers with a dashboard page open

\* Date.now() when the process starts: later than the epoch by at least the
\* default TTL, as on any host whose clock is set.
Boot == 2 * Quantum

(***************************************************************************)
(* JavaScript values.                                                      *)
(***************************************************************************)
Null      == [t |-> "null"]
Undefined == [t |-> "undefined"]
Array(s)  == [t |-> "array", items |-> s]

\* JavaScript truthiness of the values a cache slot can hold: null is falsy,
\* every object and every array (the empty one too) is truthy.
Truthy(x) == x.t \notin {"null", "undefined"}

\* An account id as JSON carries it: a number or a string of digits.
\* v is the number the digits denote.
NumId(n) == [k |-> "number", v |-> n]
StrId(n) == [k |-> "string", v |-> n]

\* String(x): a number becomes its decimal string, a string is unchanged.
String(x) == [k |-> "string", v |-> x.v]

(***************************************************************************)
(* What upstream can answer.                                               *)
(***************************************************************************)
NullNode     == [t |-> "null"]
CountNode(n) == [t |-> "node", page_info |-> [total_count |-> n]]
CountNodes   == {CountNode(n) : n \in 0..MaxCount}

\* Sequences without repetition over the set S (upstream lists each account once).
RECURSIVE Arrangements(_)
Arrangements(S) ==
  IF S = {} THEN {<<>>}
  ELSE {<<>>} \cup UNION {{<<x>> \o s : s \in Arrangements(S \ {x})} : x \in S}

\* Entities of an accounts(...) list query; Sonar serialises ids as strings
\* (server.js:257).
AccountLists == Arrangements({[id |-> StrId(n)] : n \in 1..MaxId})

ListData == {[accounts |-> [entities |-> es]] : es \in AccountLists}

\* Data of FULL_LIST_QUERY, its good and warning nodes drawn from G.
FullListData(G) ==
  [total : CountNodes, down : CountNodes, uninventoried_only : CountNodes,
   good : G, warning : G]

\* HTTP responses of the GraphQL endpoint carrying data from D: a non-success
\* status, query errors without data, query errors beside partial data, and
\* clean responses.
HttpResponses(D) ==
  {[ok |-> FALSE, errors |-> 0, data |-> Null],
   [ok |-> TRUE,  errors |-> 1, data |-> Null],
   [ok |-> TRUE,  errors |-> 1, data |-> CHOOSE d \in D : TRUE]}
  \cup {[ok |-> TRUE, errors |-> 0, data |-> d] : d \in D}

(***************************************************************************)
(* Results of a call: a returned value or a thrown Error.                  *)
(***************************************************************************)
Return(x) == [threw |-> FALSE, value |-> x]
Throw(m)  == [threw |-> TRUE, message |-> m]

\* The router reads neither the good nor the warning count of the aggregate
\* query (it recomputes both), so there a missing node stands for them;
\* server.js hands all five counts on.
SummaryResponses       == HttpResponses(FullListData({NullNode}))
ServerSummaryResponses == HttpResponses(FullListData(CountNodes))
ListResponses          == HttpResponses(ListData)


VARIABLES
  build,         \* which program runs: "router" or "server"
  env,           \* process.env: whether SONAR_ENDPOINT and SONAR_TOKEN are set
  now,           \* Date.now()
  suppressed,    \* the suppression store's set of account ids (strings)
  summaryCache,  \* routes/api.js: makeCache(CACHE_TTL_MS)
  downCache,     \* routes/api.js: makeCache(CACHE_TTL_MS)
  warningCache,  \* routes/api.js: makeCache(CACHE_TTL_MS)
  cache,         \* server.js: let cache = { ts: 0, payload: null }
  srvDownCache,  \* server.js: let downCache = { ts: 0, customers: null }
  page,          \* page[v]: the page viewer v has open, which fixes the route it polls
  pending,       \* pending[v]: the handler of v's request suspended at its await, or Idle
  out,           \* what the last step sent with res.json, or NoOut
  summarySource, \* history: the upstream counts summaryCache.value was built from
  given,         \* the arguments of a pure function under test
  got,           \* the result of applying it
  ids,           \* Bounded Fetcher: the identifiers of the batch
  concurrency,   \* Bounded Fetcher: the ceiling C
  cursor,        \* Bounded Fetcher: the next unclaimed position
  workers,       \* Bounded Fetcher: workers[w] is the position w is fetching, or 0
  results,       \* Bounded Fetcher: the tagged records, in order of completion
  outcome,       \* history: outcome[i] of the fetch of position i
  calls,         \* history: calls[i], how often fetchOne was invoked for position i
  batch          \* Bounded Fetcher: idle, running, or returned with its value

\* The part of the state the HTTP handlers act on, the part the pure-function
\* checks act on, and the Bounded Fetcher's.
web   == <<build, env, now, suppressed, summaryCache, downCache, warningCache,
           cache, srvDownCache, page, pending, out, summarySource>>
pure  == <<given, got>>
fetch == <<ids, concurrency, cursor, workers, results, outcome, calls, batch>>
vars  == <<web, pure, fetch>>

Idle  == [route |-> "idle"]
\* source is "none" where the response has no source field.
NoOut == [route |-> "none", source |-> "none"]

\* The pure-function checks and the Bounded Fetcher at rest.
PureIdle  == given = Null /\ got = Null
FetchIdle == /\ ids = <<>> /\ concurrency = 1 /\ cursor = 1
             /\ workers = <<>> /\ results = <<>> /\ outcome = <<>>
             /\ calls = <<>>
             /\ batch = [t |-> "idle"]

(***************************************************************************)
(* Helpers of server.js and sonarClient.js.                                *)
(***************************************************************************)
\* An environment variable: unset, or a text that Number() reads as n, or a
\* text Number() reads as NaN.
EnvUnset     == [t |-> "undefined"]
EnvNumber(n) == [t |-> "string", finite |-> TRUE, number |-> n]
EnvGarbage   == [t |-> "string", finite |-> FALSE]

getEnvInt(v) ==
  IF v = EnvUnset THEN Null
  ELSE IF v.finite THEN [t |-> "number", number |-> v.number]
  ELSE Null

\* getEnvInt("CACHE_TTL_MS") ?? 60_000
CACHE_TTL_MS(v) ==
  IF getEnvInt(v) = Null THEN CACHE_TTL_MS_DEFAULT ELSE getEnvInt(v).number

pickCount(node) ==
  IF node = NullNode THEN 0 ELSE node.page_info.total_count

\* The client without its test of json.errors.
sonarGraphqlRequestIgnoresErrors(res) ==
  IF ~res.ok THEN Throw("Sonar GraphQL HTTP") ELSE Return(res.data)

\* What the checks of the client see of an HTTP response: res.ok and
\* json.errors?.length.
HttpOf(res) == [ok |-> res.ok, errors |-> res.errors]

sonarGraphqlRequest(res) ==
  IF ~res.ok THEN Throw("Sonar GraphQL HTTP")
  ELSE IF res.errors > 0 THEN Throw("Sonar GraphQL errors")
  ELSE Return(res.data)

\* The test without its second operand.
MissingConfigEndpointOnly == ~env.SONAR_ENDPOINT

MissingConfig == ~env.SONAR_ENDPOINT \/ ~env.SONAR_TOKEN

getCustomerEquipmentSummary(res) ==
  IF MissingConfig THEN Throw("Missing SONAR_ENDPOINT or SONAR_TOKEN in .env")
  ELSE LET r == sonarGraphqlRequest(res) IN
       IF r.threw THEN r
       ELSE IF r.value = Null
         THEN Throw("TypeError: Cannot read properties of null")
       ELSE LET data == r.value IN
            Return([customerEquipment |->
                      [good          |-> pickCount(data.good),
                       warning       |-> pickCount(data.warning),
                       uninventoried |-> pickCount(data.uninventoried_only),
                       down          |-> pickCount(data.down),
                       total         |-> pickCount(data.total)]])

\* data?.accounts?.entities || []
EntitiesOf(data) == IF data = Null THEN <<>> ELSE data.accounts.entities

\* entities.map(a => ({ customerId: a?.id, ..., status }))  (the name, address
\* and IP fields of a record play no part in the server's logic and are left out)
CustomerRecords(entities, status) ==
  [i \in 1..Len(entities) |-> [customerId |-> entities[i].id, status |-> status]]

getDownCustomers(res) ==
  IF MissingConfig THEN Throw("Missing SONAR_ENDPOINT or SONAR_TOKEN in .env")
  ELSE LET r == sonarGraphqlRequest(res) IN
       IF r.threw THEN r
       ELSE Return(CustomerRecords(EntitiesOf(r.value), "Down"))

getWarningCustomers(res) ==
  IF MissingConfig THEN Throw("Missing SONAR_ENDPOINT or SONAR_TOKEN in .env")
  ELSE LET r == sonarGraphqlRequest(res) IN
       IF r.threw THEN r
       ELSE Return(CustomerRecords(EntitiesOf(r.value), "Warning"))

(***************************************************************************)
(* routes/api.js: the caches and the suppression filter.                   *)
(***************************************************************************)
makeCache(ttlMs) == [ttlMs |-> ttlMs, ts |-> 0, value |-> Null]

\* A freshness test that still counts an entry whose age equals its TTL.
cacheFreshInclusive(c) == Truthy(c.value) /\ now - c.ts <= c.ttlMs

cacheFresh(c) == Truthy(c.value) /\ now - c.ts < c.ttlMs

getSuppressedAccounts == suppressed

\* A filter that looks the identifier up as it comes, without String().
filterSuppressedAsIs(customers) ==
  LET s == getSuppressedAccounts IN
  SelectSeq(customers, LAMBDA c : c.customerId \notin s)

filterSuppressed(customers) ==
  LET s == getSuppressedAccounts IN
  SelectSeq(customers, LAMBDA c : String(c.customerId) \notin s)

\* The filter the status-summary handler applies inline, with the set it read
\* before its await.
visibleOf(customers, s) ==
  SelectSeq(customers, LAMBDA c : String(c.customerId) \notin s)

\* The payload with the suppressed warning records left in the total.
summaryPayloadKeepsWarning(summary, downCustomers, warningCustomers, s) ==
  LET visibleDown       == visibleOf(downCustomers, s)
      visibleWarning    == visibleOf(warningCustomers, s)
      suppressedDown    == Len(downCustomers) - Len(visibleDown)
      suppressedWarning == Len(warningCustomers) - Len(visibleWarning)
      visibleTotal      == summary.customerEquipment.total - suppressedDown
  IN [t |-> "object",
      infrastructureEquipment |-> Undefined,
      customerEquipment |->
        [down          |-> Len(visibleDown),
         warning       |-> Len(visibleWarning),
         uninventoried |-> summary.customerEquipment.uninventoried,
         good          |-> visibleTotal - Len(visibleDown) - Len(visibleWarning)
                             - summary.customerEquipment.uninventoried,
         total         |-> visibleTotal],
      meta |-> [suppressed |-> [down |-> suppressedDown,
                                warning |-> suppressedWarning]]]

\* The payload with the uninventoried accounts counted as good.
summaryPayloadGoodWithUninventoried(summary, downCustomers, warningCustomers, s) ==
  LET visibleDown       == visibleOf(downCustomers, s)
      visibleWarning    == visibleOf(warningCustomers, s)
      suppressedDown    == Len(downCustomers) - Len(visibleDown)
      suppressedWarning == Len(warningCustomers) - Len(visibleWarning)
      visibleTotal      == summary.customerEquipment.total
                             - suppressedDown - suppressedWarning
  IN [t |-> "object",
      infrastructureEquipment |-> Undefined,
      customerEquipment |->
        [down          |-> Len(visibleDown),
         warning       |-> Len(visibleWarning),
         uninventoried |-> summary.customerEquipment.uninventoried,
         good          |-> visibleTotal - Len(visibleDown) - Len(visibleWarning),
         total         |-> visibleTotal],
      meta |-> [suppressed |-> [down |-> suppressedDown,
                                warning |-> suppressedWarning]]]

\* The payload with a negative good count raised to zero.
summaryPayloadClamped(summary, downCustomers, warningCustomers, s) ==
  LET visibleDown       == visibleOf(downCustomers, s)
      visibleWarning    == visibleOf(warningCustomers, s)
      suppressedDown    == Len(downCustomers) - Len(visibleDown)
      suppressedWarning == Len(warningCustomers) - Len(visibleWarning)
      visibleTotal      == summary.customerEquipment.total
                             - suppressedDown - suppressedWarning
      good              == visibleTotal - Len(visibleDown) - Len(visibleWarning)
                             - summary.customerEquipment.uninventoried
  IN [t |-> "object",
      infrastructureEquipment |-> Undefined,
      customerEquipment |->
        [down          |-> Len(visibleDown),
         warning       |-> Len(visibleWarning),
         uninventoried |-> summary.customerEquipment.uninventoried,
         good          |-> IF good < 0 THEN 0 ELSE good,
         total         |-> visibleTotal],
      meta |-> [suppressed |-> [down |-> suppressedDown,
                                warning |-> suppressedWarning]]]

\* The payload with the suppressed accounts taken off the uninventoried count.
summaryPayloadUninventoriedLess(summary, downCustomers, warningCustomers, s) ==
  LET visibleDown       == visibleOf(downCustomers, s)
      visibleWarning    == visibleOf(warningCustomers, s)
      suppressedDown    == Len(downCustomers) - Len(visibleDown)
      suppressedWarning == Len(warningCustomers) - Len(visibleWarning)
      visibleTotal      == summary.customerEquipment.total
                             - suppressedDown - suppressedWarning
      good              == visibleTotal - Len(visibleDown) - Len(visibleWarning)
                             - summary.customerEquipment.uninventoried
  IN [t |-> "object",
      infrastructureEquipment |-> Undefined,
      customerEquipment |->
        [down          |-> Len(visibleDown),
         warning       |-> Len(visibleWarning),
         uninventoried |-> summary.customerEquipment.uninventoried
                             - suppressedDown - suppressedWarning,
         good          |-> good,
         total         |-> visibleTotal],
      meta |-> [suppressed |-> [down |-> suppressedDown,
                                warning |-> suppressedWarning]]]

\* The payload the status-summary handler builds from the three upstream results.
summaryPayload(summary, downCustomers, warningCustomers, s) ==
  LET visibleDown       == visibleOf(downCustomers, s)
      visibleWarning    == visibleOf(warningCustomers, s)
      suppressedDown    == Len(downCustomers) - Len(visibleDown)
      suppressedWarning == Len(warningCustomers) - Len(visibleWarning)
      visibleTotal      == summary.customerEquipment.total
                             - suppressedDown - suppressedWarning
  IN [t |-> "object",
      infrastructureEquipment |-> Undefined,
      customerEquipment |->
        [down          |-> Len(visibleDown),
         warning       |-> Len(visibleWarning),
         uninventoried |-> summary.customerEquipment.uninventoried,
         good          |-> visibleTotal - Len(visibleDown) - Len(visibleWarning)
                             - summary.customerEquipment.uninventoried,
         total         |-> visibleTotal],
      meta |-> [suppressed |-> [down |-> suppressedDown,
                                warning |-> suppressedWarning]]]

\* The summary every failure response carries.
ZeroSummary ==
  [t |-> "object",
   infrastructureEquipment |-> [good |-> 0, warning |-> 0, bad |-> 0, down |-> 0],
   customerEquipment |-> [good |-> 0, warning |-> 0, bad |-> 0, down |-> 0, total |-> 0]]


(***************************************************************************)
(* routes/suppressions.js and the suppression store.                       *)
(***************************************************************************)
\* The ids a suppression route can be called with (req.params.id is a string).
RouteIds == {StrId(n) : n \in 1..MaxId}

suppressAccount(id)   == suppressed \cup {String(id)}
unsuppressAccount(id) == suppressed \ {String(id)}

\* clearCustomerCaches without its third assignment.
clearCustomerCachesForgetsWarning ==
  /\ summaryCache' = [summaryCache EXCEPT !.ts = 0]
  /\ downCache'    = [downCache EXCEPT !.ts = 0]
  /\ warningCache' = warningCache

clearCustomerCaches ==
  /\ summaryCache' = [summaryCache EXCEPT !.ts = 0]
  /\ downCache'    = [downCache EXCEPT !.ts = 0]
  /\ warningCache' = [warningCache EXCEPT !.ts = 0]

\* router.post("/accounts/:id")
PostSuppressAccount(id) ==
  /\ build = "router"
  /\ suppressed' = suppressAccount(id)
  /\ clearCustomerCaches
  /\ out' = [route |-> "suppress", ok |-> TRUE, source |-> "none",
             id |-> String(id)]
  /\ UNCHANGED <<summarySource, pure, fetch>>
  /\ UNCHANGED <<build, env, now, cache, srvDownCache, page, pending>>

\* router.delete("/accounts/:id")
DeleteSuppressAccount(id) ==
  /\ build = "router"
  /\ suppressed' = unsuppressAccount(id)
  /\ clearCustomerCaches
  /\ out' = [route |-> "unsuppress", ok |-> TRUE, source |-> "none",
             id |-> String(id)]
  /\ UNCHANGED <<summarySource, pure, fetch>>
  /\ UNCHANGED <<build, env, now, cache, srvDownCache, page, pending>>

\* router.get("/"): the list of the suppressed accounts.
GetSuppressions ==
  /\ build = "router"
  /\ out' = [route |-> "suppressions", ok |-> TRUE, source |-> "none",
             accounts |-> getSuppressedAccounts]
  /\ UNCHANGED <<summarySource, pure, fetch>>
  /\ UNCHANGED <<build, env, now, suppressed, summaryCache, downCache,
                 warningCache, cache, srvDownCache, page, pending>>

(***************************************************************************)
(* routes/api.js: GET /status-summary.                                     *)
(***************************************************************************)
\* From the request's arrival to the await of Promise.all (or to the response,
\* when the cache is fresh or the configuration is missing).
GetStatusSummary(v) ==
  /\ build = "router" /\ page[v] = "index" /\ pending[v] = Idle
  /\ IF cacheFresh(summaryCache)
       THEN /\ out' = [route |-> "status-summary", ok |-> TRUE, source |-> "cache",
                       summary |-> summaryCache.value]
            /\ UNCHANGED pending
     ELSE IF MissingConfig
       THEN /\ out' = [route |-> "status-summary", ok |-> FALSE, source |-> "error",
                       error |-> "Missing SONAR_ENDPOINT or SONAR_TOKEN in .env",
                       summary |-> ZeroSummary]
            /\ UNCHANGED pending
     ELSE /\ pending' = [pending EXCEPT ![v] =
                           [route |-> "status-summary",
                            suppressed |-> getSuppressedAccounts]]
          /\ out' = NoOut
  /\ UNCHANGED <<summarySource, pure, fetch>>
  /\ UNCHANGED <<build, env, now, suppressed, summaryCache, downCache,
                 warningCache, cache, srvDownCache, page>>

\* A catch block that also drops the cached summary.
StatusSummaryCatchDropsCache(err) ==
  /\ out' = [route |-> "status-summary", ok |-> FALSE, source |-> "error",
             error |-> err.message, summary |-> ZeroSummary]
  /\ summaryCache' = makeCache(summaryCache.ttlMs)
  /\ UNCHANGED summarySource

\* The catch block, were it to fall back on the value cached earlier.
StatusSummaryCatchServesStale(err) ==
  /\ out' = [route |-> "status-summary", ok |-> FALSE, source |-> "error",
             error |-> err.message,
             summary |-> IF Truthy(summaryCache.value) THEN summaryCache.value
                         ELSE ZeroSummary]
  /\ UNCHANGED <<summaryCache, summarySource>>

\* The catch block of the handler: Promise.all rejected with err.
StatusSummaryCatch(err) ==
  /\ out' = [route |-> "status-summary", ok |-> FALSE, source |-> "error",
             error |-> err.message, summary |-> ZeroSummary]
  /\ UNCHANGED <<summaryCache, summarySource>>

\* The handler after its await, were it to read the suppression set again.
StatusSummaryStoreRereads(summary, downCustomers, warningCustomers, s, http) ==
  LET payload == summaryPayload(summary, downCustomers, warningCustomers,
                               getSuppressedAccounts) IN
  /\ summaryCache' = [summaryCache EXCEPT !.ts = now, !.value = payload]
  /\ summarySource' = [total         |-> summary.customerEquipment.total,
                       uninventoried |-> summary.customerEquipment.uninventoried]
  /\ out' = [route |-> "status-summary", ok |-> TRUE, source |-> "sonar",
             summary |-> payload,
             used |-> [summary |-> summary, downCustomers |-> downCustomers,
                       warningCustomers |-> warningCustomers,
                       suppressed |-> getSuppressedAccounts, http |-> http]]

\* The handler after its await: the payload is built, cached and sent.
StatusSummaryStore(summary, downCustomers, warningCustomers, s, http) ==
  LET payload == summaryPayload(summary, downCustomers, warningCustomers, s) IN
  /\ summaryCache' = [summaryCache EXCEPT !.ts = now, !.value = payload]
  /\ summarySource' = [total         |-> summary.customerEquipment.total,
                       uninventoried |-> summary.customerEquipment.uninventoried]
  /\ out' = [route |-> "status-summary", ok |-> TRUE, source |-> "sonar",
             summary |-> payload,
             used |-> [summary |-> summary, downCustomers |-> downCustomers,
                       warningCustomers |-> warningCustomers, suppressed |-> s,
                       http |-> http]]

\* From the settling of Promise.all to the response.  Promise.all rejects with
\* the first rejection, whichever call it comes from, and resolves when all
\* three calls have resolved.
StatusSummaryResume(v) ==
  /\ build = "router" /\ pending[v].route = "status-summary"
  /\ \/ \E rs \in SummaryResponses :
          LET summary == getCustomerEquipmentSummary(rs) IN
          summary.threw /\ StatusSummaryCatch(summary)
     \/ \E rd \in ListResponses :
          LET downCustomers == getDownCustomers(rd) IN
          downCustomers.threw /\ StatusSummaryCatch(downCustomers)
     \/ \E rw \in ListResponses :
          LET warningCustomers == getWarningCustomers(rw) IN
          warningCustomers.threw /\ StatusSummaryCatch(warningCustomers)
     \/ \E rs \in SummaryResponses, rd \in ListResponses, rw \in ListResponses :
          LET summary          == getCustomerEquipmentSummary(rs)
              downCustomers    == getDownCustomers(rd)
              warningCustomers == getWarningCustomers(rw)
          IN /\ ~summary.threw /\ ~downCustomers.threw /\ ~warningCustomers.threw
             /\ StatusSummaryStore(summary.value, downCustomers.value,
                                   warningCustomers.value, pending[v].suppressed,
                                   [ok     |-> rs.ok /\ rd.ok /\ rw.ok,
                                    errors |-> rs.errors + rd.errors + rw.errors])
  /\ pending' = [pending EXCEPT ![v] = Idle]
  /\ UNCHANGED <<pure, fetch>>
  /\ UNCHANGED <<build, env, now, suppressed, downCache, warningCache,
                 cache, srvDownCache, page>>

(***************************************************************************)
(* routes/api.js: GET /down-customers and GET /warning-customers.          *)
(***************************************************************************)
\* GetDownCustomers, were a hit to renew the entry's timestamp.
GetDownCustomersRenews(v) ==
  /\ build = "router" /\ page[v] = "down" /\ pending[v] = Idle
  /\ IF cacheFresh(downCache)
       THEN /\ out' = [route |-> "down-customers", ok |-> TRUE, source |-> "cache",
                       customers |-> downCache.value]
            /\ downCache' = [downCache EXCEPT !.ts = now]
            /\ UNCHANGED pending
     ELSE IF MissingConfig
       THEN /\ out' = [route |-> "down-customers", ok |-> FALSE, source |-> "error",
                       error |-> "Missing SONAR_ENDPOINT or SONAR_TOKEN in .env",
                       customers |-> Array(<<>>)]
            /\ UNCHANGED <<pending, downCache>>
     ELSE /\ pending' = [pending EXCEPT ![v] = [route |-> "down-customers"]]
          /\ out' = NoOut
          /\ UNCHANGED downCache
  /\ UNCHANGED <<summarySource, pure, fetch>>
  /\ UNCHANGED <<build, env, now, suppressed, summaryCache,
                 warningCache, cache, srvDownCache, page>>

GetDownCustomers(v) ==
  /\ build = "router" /\ page[v] = "down" /\ pending[v] = Idle
  /\ IF cacheFresh(downCache)
       THEN /\ out' = [route |-> "down-customers", ok |-> TRUE, source |-> "cache",
                       customers |-> downCache.value]
            /\ UNCHANGED pending
     ELSE IF MissingConfig
       THEN /\ out' = [route |-> "down-customers", ok |-> FALSE, source |-> "error",
                       error |-> "Missing SONAR_ENDPOINT or SONAR_TOKEN in .env",
                       customers |-> Array(<<>>)]
            /\ UNCHANGED pending
     ELSE /\ pending' = [pending EXCEPT ![v] = [route |-> "down-customers"]]
          /\ out' = NoOut
  /\ UNCHANGED <<summarySource, pure, fetch>>
  /\ UNCHANGED <<build, env, now, suppressed, summaryCache, downCache,
                 warningCache, cache, srvDownCache, page>>

\* DownCustomersResume, were one refresh's completion to settle every request
\* waiting on the same route.
DownCustomersResumeAnswersAll(v) ==
  /\ build = "router" /\ pending[v].route = "down-customers"
  /\ \E rd \in ListResponses :
       LET customers == getDownCustomers(rd) IN
       IF customers.threw
         THEN /\ out' = [route |-> "down-customers", ok |-> FALSE, source |-> "error",
                         error |-> customers.message, customers |-> Array(<<>>)]
              /\ UNCHANGED downCache
       ELSE LET visibleCustomers == filterSuppressed(customers.value) IN
            /\ downCache' = [downCache EXCEPT !.ts = now,
                                              !.value = Array(visibleCustomers)]
            /\ out' = [route |-> "down-customers", ok |-> TRUE, source |-> "sonar",
                       customers |-> Array(visibleCustomers),
                       meta |-> [raw |-> Len(customers.value),
                                 suppressed |-> Len(customers.value) - Len(visibleCustomers),
                                 visible |-> Len(visibleCustomers)],
                       used |-> [customers |-> customers.value, http |-> HttpOf(rd)]]
  /\ pending' = [w \in Viewers |->
                   IF pending[w].route = "down-customers" THEN Idle ELSE pending[w]]
  /\ UNCHANGED <<summarySource, pure, fetch>>
  /\ UNCHANGED <<build, env, now, suppressed, summaryCache, warningCache,
                 cache, srvDownCache, page>>

DownCustomersResume(v) ==
  /\ build = "router" /\ pending[v].route = "down-customers"
  /\ \E rd \in ListResponses :
       LET customers == getDownCustomers(rd) IN
       IF customers.threw
         THEN /\ out' = [route |-> "down-customers", ok |-> FALSE, source |-> "error",
                         error |-> customers.message, customers |-> Array(<<>>)]
              /\ UNCHANGED downCache
       ELSE LET visibleCustomers == filterSuppressed(customers.value) IN
            /\ downCache' = [downCache EXCEPT !.ts = now,
                                              !.value = Array(visibleCustomers)]
            /\ out' = [route |-> "down-customers", ok |-> TRUE, source |-> "sonar",
                       customers |-> Array(visibleCustomers),
                       meta |-> [raw |-> Len(customers.value),
                                 suppressed |-> Len(customers.value) - Len(visibleCustomers),
                                 visible |-> Len(visibleCustomers)],
                       used |-> [customers |-> customers.value, http |-> HttpOf(rd)]]
  /\ pending' = [pending EXCEPT ![v] = Idle]
  /\ UNCHANGED <<summarySource, pure, fetch>>
  /\ UNCHANGED <<build, env, now, suppressed, summaryCache, warningCache,
                 cache, srvDownCache, page>>

GetWarningCustomers(v) ==
  /\ build = "router" /\ page[v] = "warning" /\ pending[v] = Idle
  /\ IF cacheFresh(warningCache)
       THEN /\ out' = [route |-> "warning-customers", ok |-> TRUE, source |-> "cache",
                       customers |-> warningCache.value]
            /\ UNCHANGED pending
     ELSE IF MissingConfig
       THEN /\ out' = [route |-> "warning-customers", ok |-> FALSE, source |-> "error",
                       error |-> "Missing SONAR_ENDPOINT or SONAR_TOKEN in .env",
                       customers |-> Array(<<>>)]
            /\ UNCHANGED pending
     ELSE /\ pending' = [pending EXCEPT ![v] = [route |-> "warning-customers"]]
          /\ out' = NoOut
  /\ UNCHANGED <<summarySource, pure, fetch>>
  /\ UNCHANGED <<build, env, now, suppressed, summaryCache, downCache,
                 warningCache, cache, srvDownCache, page>>

\* WarningCustomersResume, were it to store its list in the down cache.
WarningCustomersResumeWritesDown(v) ==
  /\ build = "router" /\ pending[v].route = "warning-customers"
  /\ \E rw \in ListResponses :
       LET customers == getWarningCustomers(rw) IN
       IF customers.threw
         THEN /\ out' = [route |-> "warning-customers", ok |-> FALSE, source |-> "error",
                         error |-> customers.message, customers |-> Array(<<>>)]
              /\ UNCHANGED downCache
       ELSE LET visibleCustomers == filterSuppressed(customers.value) IN
            /\ downCache' = [downCache EXCEPT !.ts = now,
                                              !.value = Array(visibleCustomers)]
            /\ out' = [route |-> "warning-customers", ok |-> TRUE, source |-> "sonar",
                       customers |-> Array(visibleCustomers),
                       meta |-> [raw |-> Len(customers.value),
                                 suppressed |-> Len(customers.value) - Len(visibleCustomers),
                                 visible |-> Len(visibleCustomers)],
                       used |-> [customers |-> customers.value, http |-> HttpOf(rw)]]
  /\ pending' = [pending EXCEPT ![v] = Idle]
  /\ UNCHANGED <<summarySource, pure, fetch>>
  /\ UNCHANGED <<build, env, now, suppressed, summaryCache, warningCache,
                 cache, srvDownCache, page>>

WarningCustomersResume(v) ==
  /\ build = "router" /\ pending[v].route = "warning-customers"
  /\ \E rw \in ListResponses :
       LET customers == getWarningCustomers(rw) IN
       IF customers.threw
         THEN /\ out' = [route |-> "warning-customers", ok |-> FALSE, source |-> "error",
                         error |-> customers.message, customers |-> Array(<<>>)]
              /\ UNCHANGED warningCache
       ELSE LET visibleCustomers == filterSuppressed(customers.value) IN
            /\ warningCache' = [warningCache EXCEPT !.ts = now,
                                                    !.value = Array(visibleCustomers)]
            /\ out' = [route |-> "warning-customers", ok |-> TRUE, source |-> "sonar",
                       customers |-> Array(visibleCustomers),
                       meta |-> [raw |-> Len(customers.value),
                                 suppressed |-> Len(customers.value) - Len(visibleCustomers),
                                 visible |-> Len(visibleCustomers)],
                       used |-> [customers |-> customers.value, http |-> HttpOf(rw)]]
  /\ pending' = [pending EXCEPT ![v] = Idle]
  /\ UNCHANGED <<summarySource, pure, fetch>>
  /\ UNCHANGED <<build, env, now, suppressed, summaryCache, downCache,
                 cache, srvDownCache, page>>


(***************************************************************************)
(* routes/api.js: GET /suppressed-customers.                               *)
(***************************************************************************)
\* What getCustomersByIds can return for the identifiers S: the account
\* lookup yields one record for an identifier or, when it fails or finds
\* nothing, none; the records stand in the order of the identifiers.
getCustomersByIds(S) ==
  {[i \in 1..Len(q) |-> [customerId |-> q[i]]] : q \in Arrangements(S)}

\* getCustomersByIds rejects, before any lookup, when the endpoint or the
\* credential is missing.
getCustomersByIdsRejects == MissingConfig

\* GetSuppressedCustomers without its test for the empty set.
GetSuppressedCustomersAlwaysFetches(v) ==
  /\ build = "router" /\ page[v] = "suppressed" /\ pending[v] = Idle
  /\ LET suppressedIds == getSuppressedAccounts IN
     IF getCustomersByIdsRejects
       THEN /\ out' = [route |-> "suppressed-customers", ok |-> FALSE,
                       source |-> "error",
                       error |-> "Missing SONAR_ENDPOINT or SONAR_TOKEN in .env",
                       customers |-> Array(<<>>)]
            /\ UNCHANGED pending
     ELSE /\ pending' = [pending EXCEPT ![v] =
                           [route |-> "suppressed-customers",
                            suppressed |-> suppressedIds]]
          /\ out' = NoOut
  /\ UNCHANGED <<summarySource, pure, fetch>>
  /\ UNCHANGED <<build, env, now, suppressed, summaryCache, downCache,
                 warningCache, cache, srvDownCache, page>>

\* From the request's arrival to the await of getCustomersByIds (or to the
\* response, when the set is empty or the configuration is missing).
GetSuppressedCustomers(v) ==
  /\ build = "router" /\ page[v] = "suppressed" /\ pending[v] = Idle
  /\ LET suppressedIds == getSuppressedAccounts IN
     IF suppressedIds = {}
       THEN /\ out' = [route |-> "suppressed-customers", ok |-> TRUE,
                       source |-> "local", customers |-> Array(<<>>)]
            /\ UNCHANGED pending
     ELSE IF getCustomersByIdsRejects
       THEN /\ out' = [route |-> "suppressed-customers", ok |-> FALSE,
                       source |-> "error",
                       error |-> "Missing SONAR_ENDPOINT or SONAR_TOKEN in .env",
                       customers |-> Array(<<>>)]
            /\ UNCHANGED pending
     ELSE /\ pending' = [pending EXCEPT ![v] =
                           [route |-> "suppressed-customers",
                            suppressed |-> suppressedIds]]
          /\ out' = NoOut
  /\ UNCHANGED <<summarySource, pure, fetch>>
  /\ UNCHANGED <<build, env, now, suppressed, summaryCache, downCache,
                 warningCache, cache, srvDownCache, page>>

SuppressedCustomersResume(v) ==
  /\ build = "router" /\ pending[v].route = "suppressed-customers"
  /\ \E customers \in getCustomersByIds(pending[v].suppressed) :
       out' = [route |-> "suppressed-customers", ok |-> TRUE, source |-> "sonar",
               customers |-> Array(customers),
               used |-> [suppressed |-> pending[v].suppressed]]
  /\ pending' = [pending EXCEPT ![v] = Idle]
  /\ UNCHANGED <<summarySource, pure, fetch>>
  /\ UNCHANGED <<build, env, now, suppressed, summaryCache, downCache,
                 warningCache, cache, srvDownCache, page>>

(***************************************************************************)
(* server.js: GET /api/status-summary and GET /api/down-customers.         *)
(***************************************************************************)
ServerGetStatusSummary(v) ==
  /\ build = "server" /\ page[v] = "index" /\ pending[v] = Idle
  /\ IF Truthy(cache.payload) /\ now - cache.ts < CACHE_MS
       THEN /\ out' = [route |-> "api/status-summary", ok |-> TRUE, source |-> "cache",
                       summary |-> cache.payload]
            /\ UNCHANGED pending
     ELSE IF MissingConfig
       THEN /\ out' = [route |-> "api/status-summary", ok |-> FALSE, source |-> "error",
                       error |-> "Missing SONAR_ENDPOINT or SONAR_TOKEN in .env",
                       summary |-> ZeroSummary]
            /\ UNCHANGED pending
     ELSE /\ pending' = [pending EXCEPT ![v] =
                           [route |-> "api/status-summary", now |-> now]]
          /\ out' = NoOut
  /\ UNCHANGED <<summarySource, pure, fetch>>
  /\ UNCHANGED <<build, env, now, suppressed, summaryCache, downCache,
                 warningCache, cache, srvDownCache, page>>

ServerStatusSummaryResume(v) ==
  /\ build = "server" /\ pending[v].route = "api/status-summary"
  /\ \E rs \in ServerSummaryResponses :
       LET customer == getCustomerEquipmentSummary(rs) IN
       IF customer.threw
         THEN /\ out' = [route |-> "api/status-summary", ok |-> FALSE,
                         source |-> "error", error |-> customer.message,
                         summary |-> ZeroSummary]
              /\ UNCHANGED cache
       ELSE LET payload ==
                  [t |-> "object",
                   infrastructureEquipment |->
                     [good |-> 0, warning |-> 0, bad |-> 0, down |-> 0],
                   customerEquipment |-> customer.value.customerEquipment]
            IN /\ cache' = [ts |-> pending[v].now, payload |-> payload]
               /\ out' = [route |-> "api/status-summary", ok |-> TRUE,
                          source |-> "sonar", summary |-> payload,
                          used |-> [http |-> HttpOf(rs)]]
  /\ pending' = [pending EXCEPT ![v] = Idle]
  /\ UNCHANGED <<summarySource, pure, fetch>>
  /\ UNCHANGED <<build, env, now, suppressed, summaryCache, downCache,
                 warningCache, srvDownCache, page>>

ServerGetDownCustomers(v) ==
  /\ build = "server" /\ page[v] = "down" /\ pending[v] = Idle
  /\ IF Truthy(srvDownCache.customers) /\ now - srvDownCache.ts < DOWN_CACHE_MS
       THEN /\ out' = [route |-> "api/down-customers", ok |-> TRUE, source |-> "cache",
                       customers |-> srvDownCache.customers]
            /\ UNCHANGED pending
     ELSE IF MissingConfig
       THEN /\ out' = [route |-> "api/down-customers", ok |-> FALSE, source |-> "error",
                       error |-> "Missing SONAR_ENDPOINT or SONAR_TOKEN in .env",
                       customers |-> Array(<<>>)]
            /\ UNCHANGED pending
     ELSE /\ pending' = [pending EXCEPT ![v] =
                           [route |-> "api/down-customers", now |-> now]]
          /\ out' = NoOut
  /\ UNCHANGED <<summarySource, pure, fetch>>
  /\ UNCHANGED <<build, env, now, suppressed, summaryCache, downCache,
                 warningCache, cache, srvDownCache, page>>

\* ServerDownCustomersResume with a catch block that sends no response.
ServerDownCustomersResumeSwallowsFailure(v) ==
  /\ build = "server" /\ pending[v].route = "api/down-customers"
  /\ \E rd \in ListResponses :
       LET customers == getDownCustomers(rd) IN
       IF customers.threw
         THEN /\ out' = NoOut
              /\ pending' = [pending EXCEPT ![v] = [route |-> "unanswered"]]
              /\ UNCHANGED srvDownCache
       ELSE /\ srvDownCache' = [ts |-> pending[v].now,
                                customers |-> Array(customers.value)]
            /\ out' = [route |-> "api/down-customers", ok |-> TRUE, source |-> "sonar",
                       customers |-> Array(customers.value),
                       used |-> [http |-> HttpOf(rd)]]
            /\ pending' = [pending EXCEPT ![v] = Idle]
  /\ UNCHANGED <<summarySource, pure, fetch>>
  /\ UNCHANGED <<build, env, now, suppressed, summaryCache, downCache,
                 warningCache, cache, page>>

ServerDownCustomersResume(v) ==
  /\ build = "server" /\ pending[v].route = "api/down-customers"
  /\ \E rd \in ListResponses :
       LET customers == getDownCustomers(rd) IN
       IF customers.threw
         THEN /\ out' = [route |-> "api/down-customers", ok |-> FALSE,
                         source |-> "error", error |-> customers.message,
                         customers |-> Array(<<>>)]
              /\ UNCHANGED srvDownCache
       ELSE /\ srvDownCache' = [ts |-> pending[v].now,
                                customers |-> Array(customers.value)]
            /\ out' = [route |-> "api/down-customers", ok |-> TRUE, source |-> "sonar",
                       customers |-> Array(customers.value),
                       used |-> [http |-> HttpOf(rd)]]
  /\ pending' = [pending EXCEPT ![v] = Idle]
  /\ UNCHANGED <<summarySource, pure, fetch>>
  /\ UNCHANGED <<build, env, now, suppressed, summaryCache, downCache,
                 warningCache, cache, page>>

(***************************************************************************)
(* The clock, and the whole system.                                        *)
(***************************************************************************)
Tick ==
  /\ now < Boot + MaxTicks * Quantum
  /\ now' = now + Quantum
  /\ out' = NoOut
  /\ UNCHANGED <<summarySource, pure, fetch>>
  /\ UNCHANGED <<build, env, suppressed, summaryCache, downCache, warningCache,
                 cache, srvDownCache, page, pending>>

\* The values CACHE_TTL_MS can have in the environment.
TtlEnv == {EnvUnset, EnvGarbage, EnvNumber(MaxTtlTicks * Quantum)}

Envs == {[SONAR_ENDPOINT |-> TRUE,  SONAR_TOKEN |-> TRUE],
         [SONAR_ENDPOINT |-> FALSE, SONAR_TOKEN |-> TRUE],
         [SONAR_ENDPOINT |-> TRUE,  SONAR_TOKEN |-> FALSE]}

\* The pages the two viewers have open.  The viewers are interchangeable, and
\* the warning page polls a handler that is the down page's with the names
\* changed, so it is paired with the down page and with itself only.
PagePairs(b) ==
  IF b = "router"
    THEN {<<"index", "index">>, <<"index", "down">>, <<"down", "down">>,
          <<"down", "warning">>, <<"warning", "warning">>,
          <<"down", "suppressed">>, <<"suppressed", "suppressed">>}
    ELSE {<<"index", "index">>, <<"index", "down">>, <<"down", "down">>}

Init ==
  /\ build \in {"router", "server"}
  /\ env \in Envs
  /\ now = Boot
  /\ suppressed \in (IF build = "router" THEN SUBSET RouteIds ELSE {{}})
  /\ \E e \in (IF build = "router" THEN TtlEnv ELSE {EnvUnset}) :
       /\ summaryCache = makeCache(CACHE_TTL_MS(e))
       /\ downCache    = makeCache(CACHE_TTL_MS(e))
       /\ warningCache = makeCache(CACHE_TTL_MS(e))
  /\ cache = [ts |-> 0, payload |-> Null]
  /\ srvDownCache = [ts |-> 0, customers |-> Null]
  /\ \E pp \in PagePairs(build) : page = [v \in Viewers |-> IF v = "v1" THEN pp[1] ELSE pp[2]]
  /\ pending = [v \in Viewers |-> Idle]
  /\ out = NoOut
  /\ summarySource = Null
  /\ PureIdle
  /\ FetchIdle

Next ==
  \/ Tick
  \/ \E id \in RouteIds : PostSuppressAccount(id)
  \/ \E id \in RouteIds : DeleteSuppressAccount(id)
  \/ GetSuppressions
  \/ \E v \in Viewers : GetStatusSummary(v)
  \/ \E v \in Viewers : StatusSummaryResume(v)
  \/ \E v \in Viewers : GetDownCustomers(v)
  \/ \E v \in Viewers : DownCustomersResume(v)
  \/ \E v \in Viewers : GetWarningCustomers(v)
  \/ \E v \in Viewers : WarningCustomersResume(v)
  \/ \E v \in Viewers : GetSuppressedCustomers(v)
  \/ \E v \in Viewers : SuppressedCustomersResume(v)
  \/ \E v \in Viewers : ServerGetStatusSummary(v)
  \/ \E v \in Viewers : ServerStatusSummaryResume(v)
  \/ \E v \in Viewers : ServerGetDownCustomers(v)
  \/ \E v \in Viewers : ServerDownCustomersResume(v)

Spec == Init /\ [][Next]_vars

(***************************************************************************)
(* The suppression filter on its own: filterSuppressed as the list routes  *)
(* call it, and the same filter as the status-summary handler writes it    *)
(* inline, applied to arbitrary record lists and suppression sets.         *)
(***************************************************************************)
\* The HTTP handlers before any request.
WebAtRest ==
  /\ build = "router"
  /\ env = [SONAR_ENDPOINT |-> TRUE, SONAR_TOKEN |-> TRUE]
  /\ now = Boot
  /\ summaryCache = makeCache(CACHE_TTL_MS(EnvUnset))
  /\ downCache    = makeCache(CACHE_TTL_MS(EnvUnset))
  /\ warningCache = makeCache(CACHE_TTL_MS(EnvUnset))
  /\ cache = [ts |-> 0, payload |-> Null]
  /\ srvDownCache = [ts |-> 0, customers |-> Null]
  /\ page = [v \in Viewers |-> "index"]
  /\ pending = [v \in Viewers |-> Idle]
  /\ out = NoOut
  /\ summarySource = Null

\* Sequences over S of length at most n.
RECURSIVE SeqsUpTo(_, _)
SeqsUpTo(S, n) ==
  IF n = 0 THEN {<<>>}
  ELSE LET shorter == SeqsUpTo(S, n - 1)
       IN shorter \cup {Append(q, x) : q \in shorter, x \in S}

\* Identifiers as records carry them (numbers or strings) and as the store
\* holds them (strings).
RecordIds == {NumId(n) : n \in 1..MaxAccount} \cup {StrId(n) : n \in 1..MaxAccount}
StoreIds  == {StrId(n) : n \in 1..MaxAccount}

InitFilter ==
  /\ WebAtRest
  /\ suppressed \in SUBSET StoreIds
  /\ given \in {Array(q) :
                 q \in SeqsUpTo({[customerId |-> id, status |-> "Down"] : id \in RecordIds},
                               MaxLen)}
  /\ got = Null
  /\ FetchIdle

\* const visibleCustomers = filterSuppressed(customers), and the meta counts
\* the list routes derive from it.
CallFilterSuppressed ==
  /\ got = Null
  /\ LET customers        == given.items
         visibleCustomers == filterSuppressed(customers)
     IN got' = [by |-> "filterSuppressed", visible |-> visibleCustomers,
                suppressed |-> Len(customers) - Len(visibleCustomers)]
  /\ UNCHANGED <<web, given, fetch>>

\* The filter and the suppressed count of the status-summary handler.
CallInlineFilter ==
  /\ got = Null
  /\ LET downCustomers  == given.items
         visibleDown    == visibleOf(downCustomers, suppressed)
         suppressedDown == Len(downCustomers) - Len(visibleDown)
     IN got' = [by |-> "status-summary", visible |-> visibleDown,
                suppressed |-> suppressedDown]
  /\ UNCHANGED <<web, given, fetch>>

NextFilter == CallFilterSuppressed \/ CallInlineFilter

SpecFilter == InitFilter /\ [][NextFilter]_vars

\* The number of records of a list whose identifier, as a string, is in s.
SuppressedIn(customers, s) ==
  Cardinality({i \in 1..Len(customers) : String(customers[i].customerId) \in s})

\* The records of a list that stay visible under the set s: those whose
\* identifier, as a string, is not in s, in the order of the list.
RECURSIVE Kept(_, _)
Kept(records, s) ==
  IF records = <<>> THEN <<>>
  ELSE IF String(Head(records).customerId) \in s
    THEN Kept(Tail(records), s)
    ELSE <<Head(records)>> \o Kept(Tail(records), s)

(***************************************************************************)
(* C6.  For every record list and suppression set, the visible list is the *)
(* input without the records whose String(customerId) is in the set, in    *)
(* input order; len(visible) + suppressedCount = len(records); and no      *)
(* visible record has an identifier in the set.                            *)
(***************************************************************************)
C6_SuppressionFilter ==
  got # Null =>
    /\ got.visible = Kept(given.items, suppressed)
    /\ Len(got.visible) + got.suppressed = Len(given.items)
    /\ got.suppressed = SuppressedIn(given.items, suppressed)
    /\ \A i \in 1..Len(got.visible) :
         String(got.visible[i].customerId) \notin suppressed

\* filterSuppressed has dropped a record with a numeric identifier from
\* between two records it kept.
C6_Witness ==
  /\ got # Null /\ got.by = "filterSuppressed"
  /\ Len(given.items) = 3 /\ Len(got.visible) = 2
  /\ given.items[2].customerId.k = "number"
  /\ got.visible = <<given.items[1], given.items[3]>>

(***************************************************************************)
(* The Bounded Fetcher (getCustomersByIds of services/sonarService.js).    *)
(* A batch starts with a shared cursor on the first identifier and         *)
(* min(C, N) workers; a worker claims the position under the cursor and    *)
(* moves the cursor on, calls fetchOne for it, and appends what comes back *)
(* tagged with the position; a failed fetchOne appends nothing and is not  *)
(* tried again; when the identifiers are exhausted and no fetch is in      *)
(* flight the results are sorted by position, stably, and returned.        *)
(***************************************************************************)
Min(a, b) == IF a < b THEN a ELSE b

\* A worker count that follows the batch and ignores the ceiling.
workerCountUnbounded(c, n) == n

\* The number of workers a batch of n identifiers spawns under ceiling c.
workerCount(c, n) == Min(c, n)

\* What one fetchOne(id) can come back with: a failure, or a list of at most
\* MaxRecords records of that account.
FetchOutcomes(id) ==
  {[failed |-> TRUE, records |-> <<>>]}
  \cup {[failed |-> FALSE, records |-> [k \in 1..n |-> [customerId |-> id, part |-> k]]] :
          n \in 0..MaxRecords}

Unfetched == [failed |-> FALSE, records |-> <<>>, pending |-> TRUE]

\* A settling that keeps a slot for a failed fetch: one empty record.
taggedKeepsFailures(i, r) ==
  IF r.failed THEN <<[index |-> i, record |-> Null]>>
  ELSE [k \in 1..Len(r.records) |-> [index |-> i, record |-> r.records[k]]]

\* What a worker appends to the results when fetchOne for position i settles.
tagged(i, r) ==
  IF r.failed THEN <<>>
  ELSE [k \in 1..Len(r.records) |-> [index |-> i, record |-> r.records[k]]]

\* A return that leaves the results in the order of completion.
sortByIndexSkipped(rs) == rs

\* The results tagged with a position up to n, position by position, those of
\* one position in the order in which they were appended.
RECURSIVE sortUpTo(_, _)
sortUpTo(rs, n) ==
  IF n = 0 THEN <<>>
  ELSE sortUpTo(rs, n - 1) \o SelectSeq(rs, LAMBDA r : r.index = n)

\* results.sort((a, b) => a.index - b.index): by position, stable.
sortByIndex(rs) == sortUpTo(rs, Len(ids))

InFlight == {w \in 1..Len(workers) : workers[w] > 0}

FetchIds == {StrId(n) : n \in 1..MaxAccount}

\* getCustomersByIds(ids, concurrency) has been called.
InitFetcher ==
  /\ WebAtRest /\ suppressed = {} /\ PureIdle
  /\ ids \in SeqsUpTo(FetchIds, MaxLen)
  /\ concurrency \in 1..MaxCeiling
  /\ cursor = 1
  /\ workers = [w \in 1..workerCount(concurrency, Len(ids)) |-> 0]
  /\ results = <<>>
  /\ outcome = [i \in 1..Len(ids) |-> Unfetched]
  /\ calls = [i \in 1..Len(ids) |-> 0]
  /\ batch = [t |-> "running"]

\* Worker w takes the position under the cursor and calls fetchOne for it.
WorkerClaim(w) ==
  /\ batch.t = "running" /\ workers[w] = 0 /\ cursor <= Len(ids)
  /\ workers' = [workers EXCEPT ![w] = cursor]
  /\ cursor' = cursor + 1
  /\ calls' = [calls EXCEPT ![cursor] = @ + 1]
  /\ UNCHANGED <<web, pure, ids, concurrency, results, outcome, batch>>

\* A settling that invokes fetchOne again for a position whose fetch failed.
WorkerSettleRetries(w) ==
  /\ batch.t = "running" /\ workers[w] > 0
  /\ \E r \in FetchOutcomes(ids[workers[w]]) :
       /\ results' = results \o tagged(workers[w], r)
       /\ outcome' = [outcome EXCEPT ![workers[w]] = r]
       /\ IF r.failed
            THEN /\ calls' = [calls EXCEPT ![workers[w]] = @ + 1]
                 /\ UNCHANGED workers
            ELSE /\ workers' = [workers EXCEPT ![w] = 0]
                 /\ UNCHANGED calls
  /\ UNCHANGED <<web, pure, ids, concurrency, cursor, batch>>

\* The fetchOne worker w waits for settles.
WorkerSettle(w) ==
  /\ batch.t = "running" /\ workers[w] > 0
  /\ \E r \in FetchOutcomes(ids[workers[w]]) :
       /\ results' = results \o tagged(workers[w], r)
       /\ outcome' = [outcome EXCEPT ![workers[w]] = r]
  /\ workers' = [workers EXCEPT ![w] = 0]
  /\ UNCHANGED <<web, pure, ids, concurrency, cursor, calls, batch>>

\* Every worker has found the cursor past the end: sort and return.
FetcherReturn ==
  /\ batch.t = "running" /\ cursor > Len(ids) /\ InFlight = {}
  /\ batch' = [t |-> "returned", sorted |-> sortByIndex(results)]
  /\ UNCHANGED <<web, pure, ids, concurrency, cursor, workers, results, outcome,
                 calls>>

NextFetcher ==
  \/ \E w \in 1..Len(workers) : WorkerClaim(w)
  \/ \E w \in 1..Len(workers) : WorkerSettle(w)
  \/ FetcherReturn

SpecFetcher == InitFetcher /\ [][NextFetcher]_vars

\* The records a returned batch hands to its caller.
Returned == [j \in 1..Len(batch.sorted) |-> batch.sorted[j].record]

\* How often x occurs in the sequence q.
Occurrences(q, x) == Cardinality({j \in 1..Len(q) : q[j] = x})

\* The records of the positions 1 .. n that were fetched successfully, position
\* by position.
RECURSIVE RecordsUpTo(_)
RecordsUpTo(n) ==
  IF n = 0 THEN <<>>
  ELSE RecordsUpTo(n - 1) \o (IF outcome[n].failed THEN <<>> ELSE outcome[n].records)

(***************************************************************************)
(* C3.  Whatever the identifiers, the ceiling and the order in which the   *)
(* fetches complete, a returned batch lists its records in the order of    *)
(* the input positions that produced them, all records of one position     *)
(* together and in the order fetchOne gave them, and it lists exactly the  *)
(* records the workers collected.                                          *)
(***************************************************************************)
C3_FetcherOrdering ==
  batch.t = "returned" =>
    /\ \A j \in 1..(Len(batch.sorted) - 1) :
         \/ batch.sorted[j].index < batch.sorted[j + 1].index
         \/ /\ batch.sorted[j].index = batch.sorted[j + 1].index
            /\ batch.sorted[j].record.part < batch.sorted[j + 1].record.part
    /\ \A j \in 1..Len(batch.sorted) :
         batch.sorted[j].record.customerId = ids[batch.sorted[j].index]
    /\ Len(batch.sorted) = Len(results)
    /\ \A j \in 1..Len(results) :
         Occurrences(batch.sorted, results[j]) = Occurrences(results, results[j])

\* A batch returned whose fetches completed out of input order.
C3_Witness ==
  /\ batch.t = "returned"
  /\ \E j \in 1..(Len(results) - 1) : results[j].index > results[j + 1].index

(***************************************************************************)
(* C4.  When fetchOne fails for some of the identifiers the batch still    *)
(* returns; every position is fetched once, the failed positions give no   *)
(* record, and what is returned is exactly the records of the positions    *)
(* that succeeded, in input order.                                         *)
(***************************************************************************)
C4_FetcherFaultTolerance ==
  batch.t = "returned" =>
    /\ \A i \in 1..Len(ids) : outcome[i] # Unfetched
    /\ Returned = RecordsUpTo(Len(ids))

\* A batch returned after a failed fetch that came before a successful one.
C4_Witness ==
  /\ batch.t = "returned"
  /\ \E i \in 1..Len(ids), j \in 1..Len(ids) :
       i < j /\ outcome[i].failed /\ ~outcome[j].failed /\ Len(outcome[j].records) > 0

(***************************************************************************)
(* C5.  In every state of a batch over N identifiers with ceiling C the    *)
(* number of fetchOne calls in flight is at most min(C, N).                *)
(***************************************************************************)
C5_FetcherCeiling ==
  /\ Cardinality(InFlight) <= concurrency
  /\ Cardinality(InFlight) <= Len(ids)

\* The ceiling is reached while identifiers are still unclaimed.
C5_Witness ==
  /\ Cardinality(InFlight) = concurrency
  /\ concurrency > 1
  /\ cursor <= Len(ids)

(***************************************************************************)
(* C17.  In a batch fetchOne is invoked exactly once for every position:   *)
(* at any moment the positions before the cursor have been fetched once    *)
(* and the others not at all, no two workers hold the same position, and   *)
(* a position whose fetch failed is not fetched again; at the return every *)
(* position has been fetched once and has settled.  Duplicate identifiers  *)
(* are fetched once per position: when every fetch yields one record the   *)
(* output has one slot per position, in the order of the positions.        *)
(***************************************************************************)
C17_ExactlyOncePerPosition ==
  batch.t # "idle" =>
    /\ \A i \in 1..Len(ids) : calls[i] = (IF i < cursor THEN 1 ELSE 0)
    /\ \A w \in InFlight : \A x \in InFlight \ {w} : workers[w] # workers[x]
    /\ \A w \in InFlight : outcome[workers[w]] = Unfetched
    /\ batch.t = "returned" =>
         /\ \A i \in 1..Len(ids) : calls[i] = 1 /\ outcome[i] # Unfetched
         /\ (\A i \in 1..Len(ids) : Len(outcome[i].records) = 1) =>
              /\ Len(Returned) = Len(ids)
              /\ \A j \in 1..Len(ids) :
                   batch.sorted[j].index = j /\ Returned[j].customerId = ids[j]

\* The batch of three identifiers, the first two equal, under ceiling 2, has
\* returned three slots, each fetch having yielded one record.
C17_Witness ==
  /\ batch.t = "returned" /\ concurrency = 2
  /\ Len(ids) = 3 /\ ids[1] = ids[2] /\ ids[2] # ids[3]
  /\ Len(Returned) = 3
  /\ \A i \in 1..3 : Len(outcome[i].records) = 1

(***************************************************************************)
(* Progress.  The process either serves requests or runs one batch of the  *)
(* Bounded Fetcher.  Every upstream call settles in the end, with a result *)
(* or with a failure, and the event loop then runs the continuation that   *)
(* waits for it: the resumption of each suspended handler and the steps of *)
(* the batch's workers are weakly fair.  Nothing obliges a viewer to send  *)
(* a request, an operator to suppress, or the clock to be read.            *)
(***************************************************************************)
\* The handler of v's request resumes after its await.
Resume(v) ==
  \/ StatusSummaryResume(v)
  \/ DownCustomersResume(v)
  \/ WarningCustomersResume(v)
  \/ SuppressedCustomersResume(v)
  \/ ServerStatusSummaryResume(v)
  \/ ServerDownCustomersResume(v)

\* The pages the two viewers have open when progress is checked: between
\* them they poll every route of the build.
LivePagePairs(b) ==
  IF b = "router"
    THEN {<<"index", "suppressed">>, <<"down", "warning">>}
    ELSE {<<"index", "down">>}

\* The process has run for a quantum and has served no request yet, or a
\* batch has just been started.
InitLive ==
  \/ /\ build \in {"router", "server"}
     /\ env = [SONAR_ENDPOINT |-> TRUE, SONAR_TOKEN |-> TRUE]
     /\ now = Boot + Quantum
     /\ suppressed = {}
     /\ summaryCache = makeCache(CACHE_TTL_MS(EnvUnset))
     /\ downCache    = makeCache(CACHE_TTL_MS(EnvUnset))
     /\ warningCache = makeCache(CACHE_TTL_MS(EnvUnset))
     /\ cache = [ts |-> 0, payload |-> Null]
     /\ srvDownCache = [ts |-> 0, customers |-> Null]
     /\ \E pp \in LivePagePairs(build) :
          page = [v \in Viewers |-> IF v = "v1" THEN pp[1] ELSE pp[2]]
     /\ pending = [v \in Viewers |-> Idle]
     /\ out = NoOut
     /\ summarySource = Null
     /\ PureIdle
     /\ FetchIdle
  \/ InitFetcher

NextLive ==
  \/ batch.t = "idle" /\ Next
  \/ NextFetcher

SpecLive ==
  /\ InitLive /\ [][NextLive]_vars
  /\ \A v \in Viewers : WF_vars(Resume(v))
  /\ WF_vars(NextFetcher)

(***************************************************************************)
(* C28.  Every request suspended at an upstream call is answered in the    *)
(* end, and a running batch returns in the end.  A suspended request       *)
(* changes in one way only, by being answered, once, with a result         *)
(* computed from upstream or with a failure: no upstream failure leaves it *)
(* suspended or issues the call again; and a position of a batch is never  *)
(* fetched twice.                                                          *)
(***************************************************************************)
C28_EveryRequestIsAnswered ==
  /\ \A v \in Viewers : (pending[v] # Idle) ~> (pending[v] = Idle)
  /\ (batch.t = "running") ~> (batch.t = "returned")
  /\ [][/\ \A v \in Viewers :
            (pending[v] # Idle /\ pending'[v] # pending[v]) =>
              /\ pending'[v] = Idle
              /\ out'.route = pending[v].route
              /\ out'.source \in {"sonar", "error"}
        /\ \A i \in DOMAIN calls : calls'[i] <= 1]_vars

\* A request has been answered with the failure of its upstream call.
C28_Witness ==
  /\ out.route = "warning-customers" /\ out.source = "error"
  /\ out.error = "Sonar GraphQL HTTP"
  /\ \A v \in Viewers : pending[v] = Idle

(***************************************************************************)
(* Vocabulary of the properties.                                           *)
(***************************************************************************)
CachedRoutes == {"status-summary", "down-customers", "warning-customers",
                 "api/status-summary", "api/down-customers"}

\* The cache entry behind a route: when it was stored, what, and its TTL.
EntryOf(r) ==
  CASE r = "status-summary" ->
         [ts |-> summaryCache.ts, value |-> summaryCache.value, ttl |-> summaryCache.ttlMs]
    [] r = "down-customers" ->
         [ts |-> downCache.ts, value |-> downCache.value, ttl |-> downCache.ttlMs]
    [] r = "warning-customers" ->
         [ts |-> warningCache.ts, value |-> warningCache.value, ttl |-> warningCache.ttlMs]
    [] r = "api/status-summary" ->
         [ts |-> cache.ts, value |-> cache.payload, ttl |-> CACHE_MS]
    [] r = "api/down-customers" ->
         [ts |-> srvDownCache.ts, value |-> srvDownCache.customers, ttl |-> DOWN_CACHE_MS]

\* The body of a response: its summary or its customers.
BodyOf(o) ==
  IF o.route \in {"status-summary", "api/status-summary"} THEN o.summary ELSE o.customers

\* An entry is fresh at time t iff it holds a value and t - ts < ttl.
FreshAt(e, t) == e.value # Null /\ t - e.ts < e.ttl

\* This step is the arrival of a request on route r that goes upstream.
GoesUpstream(r) ==
  \E v \in Viewers : pending[v] = Idle /\ pending'[v].route = r

\* This step answers a request on route r from the cache.
AnsweredFromCache(r) == out'.route = r /\ out'.source = "cache"

\* This step answers a request on route r at its arrival, with an error.
RefusedAtArrival(r) ==
  out'.route = r /\ out'.source = "error" /\ pending' = pending

(***************************************************************************)
(* C1.  A request is answered from a cache exactly when the entry is fresh *)
(* at the request's arrival, that is, when it holds a value and            *)
(* now - ts < ttl; the answer is then exactly the stored value.  A request *)
(* arriving when now - ts >= ttl (or when nothing is stored) is a miss: it *)
(* goes upstream, or fails before doing so.  For the three caches of the   *)
(* router and the two of server.js.                                        *)
(***************************************************************************)
C1_CacheFreshness ==
  [][\A r \in CachedRoutes :
       /\ AnsweredFromCache(r) =>
            FreshAt(EntryOf(r), now) /\ BodyOf(out') = EntryOf(r).value
       /\ (GoesUpstream(r) \/ RefusedAtArrival(r)) => ~FreshAt(EntryOf(r), now)]_vars

\* A request answered from an entry stored one quantum earlier.
C1_Witness ==
  /\ out.route = "status-summary" /\ out.source = "cache"
  /\ summaryCache.ts > 0 /\ now - summaryCache.ts = Quantum

(***************************************************************************)
(* C2.  After clearCustomerCaches the next lookup of the summary, down and *)
(* warning caches is a miss, whatever the configured TTL and the age of    *)
(* the entry: the request that follows a suppression or an unsuppression   *)
(* is never answered from a cache.                                         *)
(***************************************************************************)
C2_InvalidationForcesMiss ==
  [][out.route \in {"suppress", "unsuppress"} =>
       \A r \in {"status-summary", "down-customers", "warning-customers"} :
         ~AnsweredFromCache(r)]_vars

(***************************************************************************)
(* Vocabulary of the summary properties.                                   *)
(***************************************************************************)
\* The last step sent a summary freshly computed by the router.
FreshSummary == out.route = "status-summary" /\ out.source = "sonar"

\* The last step sent a summary the router took from its cache.
CachedSummary == out.route = "status-summary" /\ out.source = "cache"

(***************************************************************************)
(* C7 as stated.  In every freshly computed summary,                       *)
(* down + suppressed.down equals the down count of upstream's aggregate,   *)
(* warning + suppressed.warning equals its warning count, and              *)
(* total = rawSummary.total - suppressed.down - suppressed.warning.        *)
(***************************************************************************)
C7_IdentityAgainstAggregate ==
  FreshSummary =>
    LET ce  == out.summary.customerEquipment
        m   == out.summary.meta.suppressed
        raw == out.used.summary.customerEquipment
    IN /\ ce.down + m.down = raw.down
       /\ ce.warning + m.warning = raw.warning
       /\ ce.total = raw.total - m.down - m.warning

(***************************************************************************)
(* C7, amended.  In every freshly computed summary, down + suppressed.down *)
(* equals the length of the down list upstream returned, warning +         *)
(* suppressed.warning the length of the warning list, suppressed.down and  *)
(* suppressed.warning count the records of those lists whose identifier is *)
(* in the suppression set, and                                             *)
(* total = rawSummary.total - suppressed.down - suppressed.warning.  (The  *)
(* identities against rawSummary.down and rawSummary.warning follow only   *)
(* when the lists are as long as the aggregate says.)                      *)
(***************************************************************************)
C7_AggregateIdentity ==
  FreshSummary =>
    LET ce  == out.summary.customerEquipment
        m   == out.summary.meta.suppressed
        u   == out.used
    IN /\ ce.down + m.down = Len(u.downCustomers)
       /\ ce.warning + m.warning = Len(u.warningCustomers)
       /\ m.down = SuppressedIn(u.downCustomers, u.suppressed)
       /\ m.warning = SuppressedIn(u.warningCustomers, u.suppressed)
       /\ ce.total = u.summary.customerEquipment.total - m.down - m.warning

\* A fresh summary with a suppressed down record and a suppressed warning record.
C7_Witness ==
  /\ FreshSummary
  /\ out.summary.meta.suppressed.down > 0
  /\ out.summary.meta.suppressed.warning > 0

C9_NegativeGoodNotClamped ==
  FreshSummary =>
    LET u        == out.used
        nDown    == Len(u.downCustomers) - SuppressedIn(u.downCustomers, u.suppressed)
        nWarning == Len(u.warningCustomers)
                      - SuppressedIn(u.warningCustomers, u.suppressed)
        total    == u.summary.customerEquipment.total
                      - SuppressedIn(u.downCustomers, u.suppressed)
                      - SuppressedIn(u.warningCustomers, u.suppressed)
        good     == total - nDown - nWarning - u.summary.customerEquipment.uninventoried
    IN good < 0 =>
         /\ out.summary.customerEquipment.good = good
         /\ out.ok
         /\ summaryCache.value = out.summary
         /\ summaryCache.ts = now

\* A fresh summary whose good count is negative, sent and cached.
C9_Witness ==
  /\ FreshSummary /\ out.ok
  /\ out.summary.customerEquipment.good < 0
  /\ summaryCache.value = out.summary

(***************************************************************************)
(* C10.  A request that ends in an error response (the upstream call, or   *)
(* one of the three calls of the summary refresh, threw) leaves every      *)
(* cache entry, value and timestamp, as it was before the step; a value    *)
(* cached earlier is not discarded.  For the router and for server.js.     *)
(***************************************************************************)
C10_FailedRefreshKeepsCache ==
  [][(out'.route \in CachedRoutes /\ out'.source = "error") =>
       UNCHANGED <<summaryCache, downCache, warningCache, cache, srvDownCache>>]_vars

\* A summary refresh failed upstream while an earlier summary was cached.
C10_Witness ==
  /\ out.route = "status-summary" /\ out.source = "error"
  /\ out.error \in {"Sonar GraphQL HTTP", "Sonar GraphQL errors"}
  /\ summaryCache.value # Null /\ summaryCache.ts > 0

(***************************************************************************)
(* C11.  When the response of a suppression (POST /accounts/:id) or of an  *)
(* unsuppression (DELETE /accounts/:id) is sent, the suppression set has   *)
(* been changed and clearCustomerCaches has run on all three caches: the   *)
(* summary, the down and the warning entry each carry the timestamp 0.     *)
(***************************************************************************)
C11_MutationThenInvalidation ==
  out.route \in {"suppress", "unsuppress"} =>
    /\ summaryCache.ts = 0 /\ downCache.ts = 0 /\ warningCache.ts = 0
    /\ out.ok
    /\ (out.id \in suppressed) = (out.route = "suppress")

\* A suppression's response, sent when the down and the warning cache each
\* held a list stored by an earlier refresh.
C11_Witness ==
  /\ out.route \in {"suppress", "unsuppress"}
  /\ downCache.value # Null /\ warningCache.value # Null
  /\ downCache.ts = 0 /\ warningCache.ts = 0

(***************************************************************************)
(* C12.  Nothing coalesces the refreshes of one route.  A request that     *)
(* goes upstream leaves every refresh already in flight as it was, also    *)
(* one of its own route, and does so only on an entry that is not fresh;   *)
(* and the completion of a refresh settles that request alone: another     *)
(* request in flight on the same route stays in flight, to complete with   *)
(* its own upstream answer.  Two refreshes of one route can therefore be   *)
(* in flight together.  For the router and for server.js.                  *)
(***************************************************************************)
C12_NothingCoalesces ==
  [][\A v \in Viewers : \A w \in Viewers \ {v} :
       /\ (pending[v] = Idle /\ pending'[v] # Idle) =>
            /\ pending'[v].route \in CachedRoutes =>
                 ~FreshAt(EntryOf(pending'[v].route), now)
            /\ pending'[w] = pending[w]
       /\ (pending[v] # Idle /\ pending'[v] = Idle) =>
            /\ out'.route = pending[v].route
            /\ pending'[w] = pending[w]]_vars

\* A refresh of the down list has just been stored and sent while a second
\* refresh of the down list, begun before the first ended, is in flight.
C12_Witness ==
  /\ out.route = "down-customers" /\ out.source = "sonar"
  /\ downCache.ts = now
  /\ \E v \in Viewers : pending[v].route = "down-customers"

\* The TTL of the cache behind a route of server.js.
WindowOf(r) == IF r = "api/status-summary" THEN CACHE_MS ELSE DOWN_CACHE_MS

(***************************************************************************)
(* C13 as stated.  server.js calls upstream at most once per CACHE_MS      *)
(* window for each query type: two upstream calls of one query type are    *)
(* never in flight having been issued less than a window apart.            *)
(***************************************************************************)
C13_OneCallPerWindow ==
  build = "server" =>
    \A v \in Viewers : \A w \in Viewers \ {v} :
      (pending[v] # Idle /\ pending[w].route = pending[v].route) =>
        \/ pending[v].now - pending[w].now >= WindowOf(pending[v].route)
        \/ pending[w].now - pending[v].now >= WindowOf(pending[v].route)

(***************************************************************************)
(* C14.  No request goes upstream on a fresh entry.  A request answered    *)
(* from a cache found its entry fresh, is answered with ok, source "cache" *)
(* and exactly the stored value, and the step issues no upstream call and  *)
(* writes nothing: the five caches, the suppression set and the requests   *)
(* in flight are as before.  For the router and for server.js.             *)
(***************************************************************************)
C14_HitIsReadOnly ==
  [][\A r \in CachedRoutes :
       /\ GoesUpstream(r) => ~FreshAt(EntryOf(r), now)
       /\ AnsweredFromCache(r) =>
         /\ FreshAt(EntryOf(r), now)
         /\ out'.ok /\ BodyOf(out') = EntryOf(r).value
         /\ pending' = pending
         /\ UNCHANGED <<summaryCache, downCache, warningCache, cache,
                        srvDownCache, suppressed, summarySource>>]_vars

\* The down list answered from an entry stored one quantum earlier, while
\* another request is in flight.
C14_Witness ==
  /\ out.route = "down-customers" /\ out.source = "cache"
  /\ now - downCache.ts = Quantum
  /\ \E v \in Viewers : pending[v] # Idle

(***************************************************************************)
(* C15.  While the endpoint or the credential is missing, no upstream call *)
(* is ever in flight, no cache is ever written (each entry stays empty),   *)
(* and every request on a cached route ends with a failure response that   *)
(* names the missing configuration.  For the router and for server.js.     *)
(***************************************************************************)
C15_ConfigFailsFast ==
  (~env.SONAR_ENDPOINT \/ ~env.SONAR_TOKEN) =>
    /\ \A v \in Viewers : pending[v] = Idle
    /\ \A r \in CachedRoutes : EntryOf(r).value = Null /\ EntryOf(r).ts = 0
    /\ out.route \in CachedRoutes =>
         /\ ~out.ok /\ out.source = "error"
         /\ out.error = "Missing SONAR_ENDPOINT or SONAR_TOKEN in .env"

\* A summary request refused because the credential is missing.
C15_Witness ==
  /\ env.SONAR_ENDPOINT /\ ~env.SONAR_TOKEN
  /\ out.route \in {"status-summary", "api/status-summary"}
  /\ out.source = "error"

\* The routes whose responses the dashboard's pages consume.
ConsumerRoutes == CachedRoutes \cup {"suppressed-customers"}

\* A failure response: ok false, source "error", and the zero summary or an
\* empty customers list as its body.
FailureShape(o) ==
  /\ ~o.ok /\ o.source = "error"
  /\ BodyOf(o) = (IF o.route \in {"status-summary", "api/status-summary"}
                    THEN ZeroSummary ELSE Array(<<>>))

(***************************************************************************)
(* C16 as stated.  Every consumer-facing response is a success from        *)
(* upstream (ok true, source "sonar"), a success from cache (ok true,      *)
(* source "cache") or a failure (ok false, source "error") that carries    *)
(* the zero summary or an empty customers list.                            *)
(***************************************************************************)
C16_ThreeShapes ==
  out.route \in ConsumerRoutes =>
    \/ out.ok /\ out.source \in {"sonar", "cache"}
    \/ FailureShape(out)

(***************************************************************************)
(* C16, amended.  Every consumer-facing response is a success from         *)
(* upstream, a success from cache, a failure carrying the zero summary or  *)
(* an empty customers list, or, on the suppressed-customers route only and *)
(* only when the suppression set is empty, a success with source "local"   *)
(* and an empty customers list.                                            *)
(***************************************************************************)
C16_UniformShapes ==
  out.route \in ConsumerRoutes =>
    \/ out.ok /\ out.source \in {"sonar", "cache"}
    \/ FailureShape(out)
    \/ /\ out.ok /\ out.source = "local"
       /\ out.route = "suppressed-customers"
       /\ out.customers = Array(<<>>) /\ suppressed = {}

\* A summary refresh failed upstream while a summary counting some account
\* was cached: the response carries the zero summary.
C16_Witness ==
  /\ out.route = "status-summary" /\ ~out.ok
  /\ out.summary = ZeroSummary
  /\ Truthy(summaryCache.value)
  /\ summaryCache.value.customerEquipment.total > 0

\* The account ids of the records of a customers array.
CustomerIdsOf(a) == {a.items[j].customerId : j \in 1..Len(a.items)}

(***************************************************************************)
(* C18.  GET /suppressed-customers is never served from a cache.  A        *)
(* request goes upstream exactly with the members the suppression set has  *)
(* at its arrival, and only when there are some; with an empty set it is   *)
(* answered at once with ok, source "local" and an empty list, no upstream *)
(* call issued.  A successful answer lists accounts of the set read at the *)
(* arrival only.  No step of the route changes the summary, down or        *)
(* warning cache (or the suppression set), and no answer has source        *)
(* "cache", whatever the caches hold.                                      *)
(***************************************************************************)
C18_SuppressedListNeverCached ==
  [][/\ \A v \in Viewers :
          (pending[v] = Idle /\ pending'[v].route = "suppressed-customers") =>
            /\ pending'[v].suppressed = suppressed /\ suppressed # {}
            /\ UNCHANGED <<summaryCache, downCache, warningCache, suppressed>>
     /\ out'.route = "suppressed-customers" =>
          /\ out'.source \in {"local", "sonar", "error"}
          /\ UNCHANGED <<summaryCache, downCache, warningCache, suppressed>>
          /\ out'.source = "local" =>
               /\ suppressed = {} /\ out'.customers = Array(<<>>)
               /\ pending' = pending
          /\ out'.source = "sonar" =>
               \E v \in Viewers :
                 /\ pending[v].route = "suppressed-customers" /\ pending'[v] = Idle
                 /\ CustomerIdsOf(out'.customers) \subseteq pending[v].suppressed]_vars

\* The suppressed list resolved upstream while the down cache holds a fresh
\* list and the set has been emptied since the request arrived.
C18_Witness ==
  /\ out.route = "suppressed-customers" /\ out.source = "sonar"
  /\ Len(out.customers.items) = 1
  /\ suppressed = {}
  /\ Truthy(downCache.value)

(***************************************************************************)
(* C19 as stated.  Whenever the router's summary cache and its down cache  *)
(* (its warning cache) are both fresh, the down (warning) count of the     *)
(* cached summary is the length of the cached down (warning) list.         *)
(***************************************************************************)
C19_DerivedViewsAgree ==
  (build = "router" /\ cacheFresh(summaryCache)) =>
    /\ cacheFresh(downCache) =>
         summaryCache.value.customerEquipment.down = Len(downCache.value.items)
    /\ cacheFresh(warningCache) =>
         summaryCache.value.customerEquipment.warning = Len(warningCache.value.items)

(***************************************************************************)
(* C20.  The uninventoried count of every summary the router computes is   *)
(* the uninventoried count upstream's aggregate gave to that refresh,      *)
(* whatever the suppression set; the cached summary, and every summary     *)
(* answered from the cache, keeps that count through every later           *)
(* suppression and unsuppression.                                          *)
(***************************************************************************)
C20_UninventoriedPassesThrough ==
  build = "router" =>
    /\ FreshSummary =>
         out.summary.customerEquipment.uninventoried
           = out.used.summary.customerEquipment.uninventoried
    /\ Truthy(summaryCache.value) =>
         summaryCache.value.customerEquipment.uninventoried
           = summarySource.uninventoried
    /\ CachedSummary =>
         out.summary.customerEquipment.uninventoried = summarySource.uninventoried

\* A fresh summary with an uninventoried account, computed while an account
\* of the down list was suppressed.
C20_Witness ==
  /\ FreshSummary
  /\ out.summary.customerEquipment.uninventoried > 0
  /\ out.summary.meta.suppressed.down > 0

(***************************************************************************)
(* C21 as stated.  When clearCustomerCaches has run (the response of a     *)
(* suppression or an unsuppression has just been sent) each of the three   *)
(* entries is (null, 0): no value cached earlier remains stored.           *)
(***************************************************************************)
C21_InvalidationEmptiesEntries ==
  out.route \in {"suppress", "unsuppress"} =>
    \A r \in {"status-summary", "down-customers", "warning-customers"} :
      EntryOf(r).value = Null /\ EntryOf(r).ts = 0

(***************************************************************************)
(* C22 as stated.  A refresh stores its value with the time of the write:  *)
(* when a response computed from upstream has just been sent, the entry of *)
(* its route holds that value with ts = now, so that it is served for a    *)
(* full TTL from then on.  For the router and for server.js.               *)
(***************************************************************************)
C22_StampedAtTheWrite ==
  (out.route \in CachedRoutes /\ out.source = "sonar") =>
    /\ EntryOf(out.route).value = BodyOf(out)
    /\ EntryOf(out.route).ts = now

(***************************************************************************)
(* C23 as stated.  In every state a fresh down-list or warning-list entry  *)
(* of the router holds no record whose identifier is in the suppression    *)
(* set.                                                                    *)
(***************************************************************************)
C23_FreshListsHideSuppressed ==
  build = "router" =>
    /\ cacheFresh(downCache) =>
         \A j \in 1..Len(downCache.value.items) :
           String(downCache.value.items[j].customerId) \notin suppressed
    /\ cacheFresh(warningCache) =>
         \A j \in 1..Len(warningCache.value.items) :
           String(warningCache.value.items[j].customerId) \notin suppressed

(***************************************************************************)
(* C24 as stated.  A summary refresh never leaves a fresh entry computed   *)
(* from a suppression set older than the current one: when a freshly       *)
(* computed summary has just been stored and sent, the set it was computed *)
(* with is the suppression set as it is now.                               *)
(***************************************************************************)
C24_NoEntryFromOlderSet ==
  FreshSummary => out.used.suppressed = suppressed

(***************************************************************************)
(* C24, amended.  A summary refresh reads the suppression set at its       *)
(* arrival, hence after every suppression and unsuppression completed by   *)
(* then; a suppression or unsuppression leaves the refreshes in flight as  *)
(* they are; and a refresh that completes computes its summary with the    *)
(* set it read at its arrival, older or not, and stores it as a fresh      *)
(* entry.                                                                  *)
(***************************************************************************)
C24_RefreshUsesSetReadAtArrival ==
  [][/\ out'.route \in {"suppress", "unsuppress"} => pending' = pending
     /\ \A v \in Viewers :
          /\ (pending[v] = Idle /\ pending'[v].route = "status-summary") =>
               pending'[v].suppressed = suppressed
          /\ (pending[v].route = "status-summary" /\ pending'[v] = Idle
                /\ out'.source = "sonar") =>
               /\ out'.used.suppressed = pending[v].suppressed
               /\ out'.summary = summaryPayload(out'.used.summary,
                                                out'.used.downCustomers,
                                                out'.used.warningCustomers,
                                                pending[v].suppressed)
               /\ summaryCache'.value = out'.summary
               /\ summaryCache'.ts = now]_vars

\* Under the default TTL, a refresh in flight during a suppression has stored
\* a fresh summary that still counts the account suppressed meanwhile.
C24_Witness ==
  /\ FreshSummary /\ cacheFresh(summaryCache)
  /\ summaryCache.ttlMs = CACHE_TTL_MS_DEFAULT
  /\ out.used.suppressed = {} /\ suppressed # {}
  /\ out.summary.customerEquipment.down = 1
  /\ String(out.used.downCustomers[1].customerId) \in suppressed

(***************************************************************************)
(* C25 as stated.  A suppression or an unsuppression that changes the set  *)
(* invalidates the three caches in the same step: in the state it leaves,  *)
(* the state the next handler step observes, none of the three entries     *)
(* tests as fresh (each value stored then was stored before the change).   *)
(***************************************************************************)
C25_ChangeNeverSeenWithFreshEntry ==
  [][(out'.route \in {"suppress", "unsuppress"} /\ suppressed' # suppressed) =>
       /\ ~(Truthy(summaryCache'.value)
             /\ now' - summaryCache'.ts < summaryCache'.ttlMs)
       /\ ~(Truthy(downCache'.value)
             /\ now' - downCache'.ts < downCache'.ttlMs)
       /\ ~(Truthy(warningCache'.value)
             /\ now' - warningCache'.ts < warningCache'.ttlMs)]_vars

(***************************************************************************)
(* C26 as stated.  A refresh that completes never installs a timestamp     *)
(* older than the one its entry already holds, whatever the order in which *)
(* overlapping refreshes of one query type complete.  For the router and   *)
(* for server.js.                                                          *)
(***************************************************************************)
C26_TimestampNeverDecreases ==
  [][\A r \in CachedRoutes :
       (out'.route = r /\ out'.source = "sonar") => EntryOf(r)'.ts >= EntryOf(r).ts]_vars

\* This step ends a refresh of route r with a value computed from upstream.
Refreshed(r) == out'.route = r /\ out'.source = "sonar"

\* This step answers a suppression or an unsuppression.
Mutated == out'.route \in {"suppress", "unsuppress"}

(***************************************************************************)
(* C27.  A cache entry changes only in a step that ends a successful       *)
(* refresh of its own route or, for the router's three, in a suppression   *)
(* or unsuppression: a refresh of one route leaves the other entries as    *)
(* they are, and so do arrivals, hits, failures and the passing of time.   *)
(* The suppression set changes only in a suppression or unsuppression: no  *)
(* GET handler (summary, down, warning, suppressed customers, suppression  *)
(* list) changes it.                                                       *)
(***************************************************************************)
C27_EntriesChangeOnlyByOwnRefresh ==
  [][/\ summaryCache' # summaryCache => Refreshed("status-summary") \/ Mutated
     /\ downCache' # downCache       => Refreshed("down-customers") \/ Mutated
     /\ warningCache' # warningCache => Refreshed("warning-customers") \/ Mutated
     /\ cache' # cache               => Refreshed("api/status-summary")
     /\ srvDownCache' # srvDownCache => Refreshed("api/down-customers")
     /\ suppressed' # suppressed     => Mutated
     /\ out'.route \in ConsumerRoutes \cup {"suppressions"} =>
          suppressed' = suppressed]_vars

\* The warning list has just been refreshed and stored while the down cache
\* holds a list stored a quantum earlier, and an account is suppressed.
C27_Witness ==
  /\ out.route = "warning-customers" /\ out.source = "sonar"
  /\ warningCache.ts = now
  /\ Truthy(downCache.value) /\ now - downCache.ts = Quantum
  /\ suppressed # {}

\* Failures the GraphQL client raises from a response it received.
ClientFailures == {"Sonar GraphQL HTTP", "Sonar GraphQL errors"}

(***************************************************************************)
(* C29.  A response of a cached route computed from upstream rests only on *)
(* HTTP responses whose status was a success and whose errors list was     *)
(* empty; a failure the client raised from a response (a non-success       *)
(* status, a non-empty errors list) reaches the consumer as a failure      *)
(* response: ok false, source "error", the client's message, and the zero  *)
(* summary or an empty customers list.                                     *)
(***************************************************************************)
C29_DataOnlyFromCleanResponses ==
  out.route \in CachedRoutes =>
    /\ out.source = "sonar" =>
         out.ok /\ out.used.http.ok /\ out.used.http.errors = 0
    /\ (out.source = "error" /\ out.error \in ClientFailures) =>
         FailureShape(out)
    /\ out.source = "error" =>
         out.error \in ClientFailures
                       \cup {"Missing SONAR_ENDPOINT or SONAR_TOKEN in .env"}

\* The down-customers call of server.js met a response reporting query
\* errors, and the request was answered with that failure, while the other
\* viewer's request is still waiting for its own call.
C29_Witness ==
  /\ out.route = "api/down-customers" /\ out.source = "error"
  /\ out.error = "Sonar GraphQL errors" /\ ~out.ok
  /\ \E v \in Viewers : pending[v] # Idle

=============================================================================
